---- MODULE Spec2Model ----
(***************************************************************************)
(* imscale-service (src/src/main.rs): an HTTP service that lists a         *)
(* directory of images (list_handler) and serves them, optionally resized  *)
(* (download_handler).                                                     *)
(*                                                                         *)
(* Strings are sequences of tokens.  A token is one character ("." "/"     *)
(* "%" "2" "e" and the double quote) or a name fragment ("images", "pic",  *)
(* "png", ...): a run of characters that holds none of . / % and does not  *)
(* begin with a hexadecimal digit, so that every string operation of the   *)
(* program that looks at single characters (starts_with("."), split('/'),  *)
(* percent-decoding, Path::components, Path::extension) is decided by the  *)
(* tokens alone.  "hi" stands for one byte >= 0x80.                        *)
(***************************************************************************)
EXTENDS Integers, Sequences, FiniteSets, TLC

(***************************************************************************)
(* Bounds of the model.                                                    *)
(***************************************************************************)
\* the longest client path, in '/'-separated segments
MaxSegs == 2
\* the largest width or height a client asks for
MaxDim == 2
\* the latest clock reading SystemTime::now() returns
MaxTime == 1
\* concurrent requests in flight
MaxReq == 2

(***************************************************************************)
(* str: the string operations the handlers use.                            *)
(***************************************************************************)
DOT == "."
SLASH == "/"
PCT == "%"

\* str::starts_with(".")
starts_with_dot(s) == Len(s) > 0 /\ s[1] = DOT

\* str::is_empty
is_empty(s) == Len(s) = 0

\* str::split('/'): the segments between slashes, empty ones included
RECURSIVE split(_)
split(s) ==
    IF \A i \in 1..Len(s) : s[i] # SLASH THEN <<s>>
    ELSE LET i == CHOOSE k \in 1..Len(s) :
                     s[k] = SLASH /\ \A j \in 1..(k - 1) : s[j] # SLASH
         IN  <<SubSeq(s, 1, i - 1)>> \o split(SubSeq(s, i + 1, Len(s)))

\* The hexadecimal digits of the token alphabet and their values.
IsHex(t) == t \in {"2", "e"}
HexVal(t) == IF t = "2" THEN 2 ELSE 14

\* The character of a decoded byte: 0x22 is the double quote, 0x2e the dot;
\* 0xe2 and 0xee are bytes >= 0x80.
ByteTok(b) == IF b = 46 THEN DOT ELSE IF b = 34 THEN "\"" ELSE "hi"

\* urlencoding::decode_binary: %XY with two hexadecimal digits is the byte
\* 0xXY, every other character (a % not followed by two digits too) is kept.
RECURSIVE decode_binary(_)
decode_binary(s) ==
    IF s = <<>> THEN <<>>
    ELSE IF s[1] = PCT /\ Len(s) >= 3 /\ IsHex(s[2]) /\ IsHex(s[3])
         THEN <<ByteTok(16 * HexVal(s[2]) + HexVal(s[3]))>>
                  \o decode_binary(SubSeq(s, 4, Len(s)))
         ELSE <<s[1]>> \o decode_binary(Tail(s))

\* String::from_utf8 on the decoded bytes: a byte >= 0x80 needs continuation
\* bytes 0x80..0xBF after it, which no %XY over the digits 2 and e yields.
from_utf8_ok(b) == \A i \in 1..Len(b) : b[i] # "hi"

\* urlencoding::decode(&path).unwrap_or_else(|_| path.clone().into())
decoded_path(path) ==
    LET b == decode_binary(path)
    IN  IF from_utf8_ok(b) THEN b ELSE path

(***************************************************************************)
(* std::path: lexical path operations (no filesystem access).              *)
(***************************************************************************)
\* Path::is_absolute (has_root on Unix)
has_root(p) == Len(p) > 0 /\ p[1] = SLASH

RECURSIVE normal_components(_, _)
normal_components(segs, first) ==
    IF segs = <<>> THEN <<>>
    ELSE LET s == Head(segs)
         IN  IF s = <<>> \/ (s = <<DOT>> /\ ~first)
             THEN normal_components(Tail(segs), first)
             ELSE <<s>> \o normal_components(Tail(segs), FALSE)

\* Path::components: the root (if any) and then the segments, without the
\* empty ones and without the "." ones except a leading one; ".." is kept.
components(p) ==
    IF has_root(p) THEN <<<<SLASH>>>> \o normal_components(split(Tail(p)), FALSE)
    ELSE normal_components(split(p), TRUE)

\* Path::join: an absolute argument replaces the base
join(base, p) ==
    IF has_root(p) THEN p
    ELSE IF base = <<>> THEN p
    ELSE IF base[Len(base)] = SLASH THEN base \o p
    ELSE base \o <<SLASH>> \o p

IsPrefix(a, b) == Len(a) <= Len(b) /\ SubSeq(b, 1, Len(a)) = a

\* Path::starts_with: a prefix of whole components
path_starts_with(p, base) == IsPrefix(components(base), components(p))

\* Path::file_name: the last component, unless the path ends in ".."
file_name(p) ==
    LET c == components(p)
    IN  IF c = <<>> \/ c[Len(c)] \in {<<DOT, DOT>>, <<SLASH>>, <<DOT>>}
        THEN <<>> ELSE c[Len(c)]

\* Path::extension: what follows the last dot of the file name, when the
\* name has a dot that is not its first character
extension(p) ==
    LET n == file_name(p)
        dots == {i \in 2..Len(n) : n[i] = DOT}
    IN  IF dots = {} THEN <<>>
        ELSE LET i == CHOOSE k \in dots : \A j \in dots : j <= k
             IN  SubSeq(n, i + 1, Len(n))

\* str::to_lowercase, token by token
LowerTok(t) == IF t = "PNG" THEN "png" ELSE IF t = "JPG" THEN "jpg" ELSE t
to_lowercase(s) == [i \in 1..Len(s) |-> LowerTok(s[i])]

(***************************************************************************)
(* The filesystem the service reads.  "srv" is the working directory of    *)
(* the process; the base directory is srv/images.  Every node is a record  *)
(* of the same shape.                                                      *)
(*   kind      "dir", "file", or "dangling" (a symbolic link to nothing)   *)
(*   mtime     the modification time, or -1 when Metadata::modified()      *)
(*             returns Err                                                 *)
(*   readable  read_dir (a directory) or File::open (a file) succeeds      *)
(*   img       what the image library finds in a file:                     *)
(*     fmt     the format ImageReader reports after with_guessed_format,   *)
(*             "none" when it reports none                                 *)
(*     header  the decoder can be built and the dimensions read            *)
(*     orient  the orientation tag, 1..8 as in EXIF; 0 when reading it     *)
(*             fails                                                       *)
(*     pixels  the pixel data decodes                                      *)
(*     enc     the decoded image can be encoded in fmt                     *)
(*     w, h    the stored pixel dimensions                                 *)
(***************************************************************************)
NoImage == [fmt |-> "none", header |-> FALSE, orient |-> 1, pixels |-> FALSE,
            enc |-> FALSE, w |-> 0, h |-> 0]

Image(fmt, w, h, orient) ==
    [fmt |-> fmt, header |-> TRUE, orient |-> orient, pixels |-> TRUE,
     enc |-> TRUE, w |-> w, h |-> h]

Node(name, kind, parent, children, size, mtime, readable, img) ==
    [name |-> name, kind |-> kind, parent |-> parent, children |-> children,
     size |-> size, mtime |-> mtime, readable |-> readable, img |-> img]

Nodes == {"root", "srv", "images", "secret", "pic", "hidden", "notes", "sub",
          "top", "link", "old", "deep"}

\* The files the requests are served from.  v describes images/pic.png and
\* whether images/sub can be read.
MkFS(v) ==
    [n \in Nodes |->
        CASE n = "root"   -> Node(<<>>, "dir", "root", <<"srv">>, 0, 1, TRUE, NoImage)
          [] n = "srv"    -> Node(<<"srv">>, "dir", "root", <<"images", "secret">>,
                                  0, 1, TRUE, NoImage)
          [] n = "secret" -> Node(<<"secret", DOT, "txt">>, "file", "srv", <<>>,
                                  7, 1, TRUE, NoImage)
          [] n = "images" -> Node(<<"images">>, "dir", "srv",
                                  <<"pic", "hidden", "notes", "sub", "top", "link", "old">>,
                                  0, 1, TRUE, NoImage)
          [] n = "pic"    -> Node(<<"pic", DOT, "png">>, "file", "images", <<>>,
                                  5, v.mtime, v.open, v.img)
          [] n = "hidden" -> Node(<<DOT, "hidden", DOT, "png">>, "file", "images", <<>>,
                                  3, 1, TRUE, Image("png", 1, 1, 1))
          [] n = "notes"  -> Node(<<"notes", DOT, "txt">>, "file", "images", <<>>,
                                  2, 0, TRUE, NoImage)
          [] n = "sub"    -> Node(<<"sub">>, "dir", "images", <<"deep">>,
                                  0, 1, v.sub_readable, NoImage)
          [] n = "top"    -> Node(<<"top", DOT, "PNG">>, "file", "images", <<>>,
                                  4, 1, TRUE, Image("png", 2, 2, 1))
          [] n = "link"   -> Node(<<"link">>, "dangling", "images", <<>>,
                                  0, 1, TRUE, NoImage)
          [] n = "old"    -> Node(<<"old", DOT, "jpg">>, "dir", "images", <<>>,
                                  0, 0, TRUE, NoImage)
          [] n = "deep"   -> Node(<<"deep", DOT, "gif">>, "file", "sub", <<>>,
                                  6, 1, TRUE, Image("gif", 1, 2, 1))]

\* images/pic.png as the requests may find it
Plain(img) == [img |-> img, mtime |-> 1, open |-> TRUE, sub_readable |-> TRUE]

Variants ==
    {Plain(Image(f, 4, 2, 1)) : f \in {"png", "jpeg", "gif", "webp", "avif", "tiff", "bmp"}}
    \cup {Plain(Image("jpeg", 4, 2, o)) : o \in {3, 6, 8}}
    \cup {Plain(Image("png", 1, 3, 1)), Plain(Image("png", 3, 3, 5))}
    \cup {Plain(NoImage),
          Plain([Image("png", 4, 2, 1) EXCEPT !.header = FALSE]),
          Plain([Image("png", 4, 2, 1) EXCEPT !.pixels = FALSE]),
          Plain([Image("jpeg", 4, 2, 1) EXCEPT !.orient = 0]),
          Plain([Image("png", 4, 2, 1) EXCEPT !.enc = FALSE]),
          [Plain(Image("png", 4, 2, 1)) EXCEPT !.mtime = -1],
          [Plain(Image("png", 4, 2, 1)) EXCEPT !.open = FALSE],
          [Plain(Image("png", 4, 2, 1)) EXCEPT !.sub_readable = FALSE]}

\* The child of directory d called name, or "none"
Child(f, d, name) ==
    LET hits == {i \in 1..Len(f[d].children) : f[f[d].children[i]].name = name}
    IN  IF hits = {} THEN "none" ELSE f[d].children[CHOOSE i \in hits : TRUE]

\* Path resolution of the operating system (stat, open, opendir): every
\* segment is looked up in the directory reached so far, ".." is the parent
\* of that directory, symbolic links are followed.  "none" is ENOENT or
\* ENOTDIR.
RECURSIVE walk(_, _, _)
walk(f, cur, segs) ==
    IF segs = <<>> \/ cur = "none" THEN cur
    ELSE IF f[cur].kind # "dir" THEN "none"
    ELSE LET s == Head(segs)
             next == IF s = <<>> \/ s = <<DOT>> THEN cur
                     ELSE IF s = <<DOT, DOT>> THEN f[cur].parent
                     ELSE Child(f, cur, s)
         IN  IF next # "none" /\ f[next].kind = "dangling" THEN "none"
             ELSE walk(f, next, Tail(segs))

Resolve(f, p) ==
    IF p = <<>> THEN "none"
    ELSE IF has_root(p) THEN walk(f, "root", split(Tail(p)))
    ELSE walk(f, "srv", split(p))

(***************************************************************************)
(* The image library, as far as the handlers see it.                       *)
(***************************************************************************)
Max(a, b) == IF a >= b THEN a ELSE b

\* f64::round of the positive quotient num / den: halves round away from 0
Round(num, den) == (2 * num + den) \div (2 * den)

\* A variant of resize_dimensions that scales by the larger ratio (fill =
\* true, as DynamicImage::resize_to_fill does).
resize_dimensions_fill(width, height, nwidth, nheight) ==
    LET use_w == nwidth * height >= nheight * width
        rn == IF use_w THEN nwidth ELSE nheight
        rd == IF use_w THEN width ELSE height
    IN  [w |-> Max(Round(width * rn, rd), 1),
         h |-> Max(Round(height * rn, rd), 1)]

\* image::math::utils::resize_dimensions(width, height, nwidth, nheight,
\* fill = false), called by DynamicImage::resize: the smaller of the two
\* ratios nwidth/width and nheight/height scales both sides, and no side
\* becomes less than 1.
resize_dimensions(width, height, nwidth, nheight) ==
    LET use_w == nwidth * height <= nheight * width
        rn == IF use_w THEN nwidth ELSE nheight
        rd == IF use_w THEN width ELSE height
    IN  [w |-> Max(Round(width * rn, rd), 1),
         h |-> Max(Round(height * rn, rd), 1)]

\* A variant of the probe below that reports the stored dimensions of every
\* file with a format, its header readable or not.
image_dimensions_any_header(n) ==
    n.kind = "file" /\ n.readable /\ n.img.fmt # "none"

\* image::image_dimensions(path): the file opens, has a format and a
\* readable header; the stored dimensions, no orientation applied
image_dimensions_ok(n) ==
    n.kind = "file" /\ n.readable /\ n.img.fmt # "none" /\ n.img.header

\* DynamicImage::apply_orientation: the EXIF orientations 5..8 turn the
\* image by 90 or 270 degrees and so exchange width and height
apply_orientation(img) ==
    IF img.orient \in 5..8 THEN [w |-> img.h, h |-> img.w]
    ELSE [w |-> img.w, h |-> img.h]

(***************************************************************************)
(* Requests and responses.                                                 *)
(***************************************************************************)
\* env::var("IMAGE_DIR").unwrap_or_else(|_| "images".to_string())
base_dir == <<"images">>

Slots == 1..MaxReq

\* The segments clients build their paths from.
Segments ==
    {<<>>, <<DOT, DOT>>, <<PCT, "2", "e", PCT, "2", "e">>, <<"sub">>,
     <<"pic", DOT, "png">>, <<DOT, "hidden", DOT, "png">>, <<PCT, "e", "e">>}

RECURSIVE JoinSegs(_)
JoinSegs(segs) ==
    IF Len(segs) = 1 THEN segs[1]
    ELSE segs[1] \o <<SLASH>> \o JoinSegs(Tail(segs))

ClientPaths ==
    UNION {{JoinSegs(segs) : segs \in [1..n -> Segments]} : n \in 1..MaxSegs}

\* width and height: -1 is an absent parameter
Dims == -1..MaxDim
\* preserve_aspect_ratio: Option<bool>
Flags == {"none", "true", "false"}

\* struct ResizeParams
ResizeParams == [width : Dims, height : Dims, preserve_aspect_ratio : Flags]
NoParams == [width |-> -1, height |-> -1, preserve_aspect_ratio |-> "none"]

NoBody == [kind |-> "empty"]
NoResponse ==
    [status |-> 0, content_type |-> "", last_modified |-> -1,
     cache_control |-> "", body |-> NoBody]

\* Err(StatusCode): a status and nothing else
Status(code) == [NoResponse EXCEPT !.status = code]

\* Ok(Json(value))
JsonOk(body) ==
    [NoResponse EXCEPT !.status = 200, !.content_type = "application/json",
                       !.body = body]

VARIABLES
    fs,             \* the filesystem: what varies of it (see MkFS)
    pc,             \* where each request is in its handler
    handler,        \* "list" or "download"
    path,           \* Path(path): the path the router extracted
    params,         \* Query<ResizeParams>
    full_path,      \* the handler's full_path
    metadata,       \* the node fs::metadata(&full_path) returned
    modified_time,  \* the handler's modified_time
    format,         \* download_handler's format
    img,            \* download_handler's img: its dimensions
    fs_calls,       \* the filesystem and decode operations the request made
    response        \* the response of a finished request

vars == <<fs, pc, handler, path, params, full_path, metadata, modified_time,
          format, img, fs_calls, response>>

Times == 0..MaxTime

\* The directory tree of the filesystem
disk == MkFS(fs)

Init ==
    /\ fs \in Variants
    /\ pc = [r \in Slots |-> "idle"]
    /\ handler = [r \in Slots |-> "none"]
    /\ path = [r \in Slots |-> <<>>]
    /\ params = [r \in Slots |-> NoParams]
    /\ full_path = [r \in Slots |-> <<>>]
    /\ metadata = [r \in Slots |-> "none"]
    /\ modified_time = [r \in Slots |-> -1]
    /\ format = [r \in Slots |-> "none"]
    /\ img = [r \in Slots |-> [w |-> 0, h |-> 0]]
    /\ fs_calls = [r \in Slots |-> <<>>]
    /\ response = [r \in Slots |-> NoResponse]

\* A variant of local in which the binding is one static shared by all the
\* requests.
shared_static(var, r, v) == [x \in DOMAIN var |-> v]

\* The arguments and the let bindings of a handler belong to its request:
\* request r binds v to the variable, and no other request sees it.
local(var, r, v) == [var EXCEPT ![r] = v]

\* A request ends with response resp.
Finish(r, resp) ==
    /\ pc' = [pc EXCEPT ![r] = "done"]
    /\ response' = [response EXCEPT ![r] = resp]

\* One more operation on the filesystem by request r.
Call(r, ops) == fs_calls' = [fs_calls EXCEPT ![r] = @ \o ops]

\* The router hands a request to its handler: /list/{*path} and /list/ to
\* list_handler, /download/{*path} to download_handler.
Route(r, h, p) ==
    /\ pc[r] = "idle"
    /\ h = "download" => p # <<>>
    /\ pc' = [pc EXCEPT ![r] = IF h = "list" THEN "list_check" ELSE "download_check"]
    /\ handler' = local(handler, r, h)
    /\ path' = local(path, r, p)
    /\ UNCHANGED <<fs, params, full_path, metadata, modified_time, format, img,
                   fs_calls, response>>

\* A request arrives while no other is in flight.
Receive(r) ==
    /\ \A q \in Slots : pc[q] = "idle"
    /\ \E h \in {"list", "download"} : \E p \in ClientPaths \cup {<<>>} : Route(r, h, p)

(***************************************************************************)
(* list_handler                                                            *)
(***************************************************************************)
ImageExtensions ==
    {<<"jpg">>, <<"jpeg">>, <<"png">>, <<"gif">>, <<"bmp">>, <<"ico">>,
     <<"tiff">>, <<"webp">>, <<"avif">>}

\* Path::is_dir: the path resolves to a directory
is_dir(f, p) == Resolve(f, p) # "none" /\ f[Resolve(f, p)].kind = "dir"

\* A variant of get_entry_type that compares the extension as it is written.
get_entry_type_case_sensitive(f, p) ==
    IF is_dir(f, p) THEN "directory"
    ELSE IF extension(p) \in ImageExtensions THEN "image"
    ELSE "file"

get_entry_type(f, p) ==
    IF is_dir(f, p) THEN "directory"
    ELSE IF to_lowercase(extension(p)) \in ImageExtensions THEN "image"
    ELSE "file"

\* let full_path = if path.is_empty() { base } else { base.join(decoded) }
list_full_path(p) ==
    IF is_empty(p) THEN base_dir ELSE join(base_dir, decoded_path(p))

\* !full_path.starts_with(&base_dir) || path.starts_with(".")
list_forbidden(p) ==
    ~path_starts_with(list_full_path(p), base_dir) \/ starts_with_dot(p)

\* A variant of the choice below that takes the clock in every case.
modified_now(n, now) == now

\* metadata.modified().unwrap_or(SystemTime::now())
modified_or(n, now) == IF n.mtime >= 0 THEN n.mtime ELSE now

\* The body of the for loop over read_dir, for the entries from the i-th
\* on: the rows pushed to entries.
RECURSIVE list_entries(_, _, _, _, _)
list_entries(f, dir, children, i, now) ==
    IF i > Len(children) THEN <<>>
    ELSE LET name == f[children[i]].name
             entry_path == join(dir, name)
             m == Resolve(f, entry_path)
             rest == list_entries(f, dir, children, i + 1, now)
         IN  IF starts_with_dot(name) \/ m = "none" THEN rest
             ELSE <<[name |-> name,
                     type |-> get_entry_type(f, entry_path),
                     size |-> f[m].size,
                     modified |-> modified_or(f[m], now)]>> \o rest

\* The filesystem operations of the same loop.
RECURSIVE list_calls(_, _, _, _)
list_calls(f, dir, children, i) ==
    IF i > Len(children) THEN <<>>
    ELSE LET name == f[children[i]].name
             entry_path == join(dir, name)
             rest == list_calls(f, dir, children, i + 1)
         IN  IF starts_with_dot(name) THEN rest
             ELSE IF Resolve(f, entry_path) = "none"
             THEN <<[op |-> "metadata", path |-> entry_path]>> \o rest
             ELSE <<[op |-> "metadata", path |-> entry_path],
                    [op |-> "is_dir", path |-> entry_path]>> \o rest

\* Lines 43-58: the path is built and checked.
list_check(r) ==
    /\ pc[r] = "list_check"
    /\ full_path' = local(full_path, r, list_full_path(path[r]))
    /\ IF list_forbidden(path[r])
       THEN Finish(r, Status(403))
       ELSE pc' = [pc EXCEPT ![r] = "list_metadata"] /\ UNCHANGED response
    /\ UNCHANGED <<fs, handler, path, params, metadata, modified_time, format,
                   img, fs_calls>>

\* Lines 60-65: fs::metadata(&full_path), and the branch on is_dir.
list_metadata(r) ==
    /\ pc[r] = "list_metadata"
    /\ Call(r, <<[op |-> "metadata", path |-> full_path[r]]>>)
    /\ LET m == Resolve(disk, full_path[r])
       IN  /\ metadata' = local(metadata, r, m)
           /\ IF m = "none" THEN Finish(r, Status(404))
              ELSE /\ pc' = [pc EXCEPT ![r] = IF disk[m].kind = "dir" THEN "list_dir"
                                               ELSE "list_detail"]
                   /\ UNCHANGED response
    /\ UNCHANGED <<fs, handler, path, params, full_path, modified_time, format, img>>

\* Lines 66-90: the response for directory d
list_dir_response(f, dir, d, now) ==
    IF ~d.readable THEN Status(500)
    ELSE JsonOk([kind |-> "entries",
                 entries |-> list_entries(f, dir, d.children, 1, now)])

\* Lines 91-113: the response for the single file n
list_detail_response(f, p, file, n, now) ==
    JsonOk([kind |-> "detail",
            name |-> file_name(file),
            size |-> n.size,
            modified |-> modified_or(n, now),
            width |-> IF image_dimensions_ok(n) THEN n.img.w ELSE 0,
            height |-> IF image_dimensions_ok(n) THEN n.img.h ELSE 0,
            download_url |-> <<SLASH, "download", SLASH>> \o p,
            type |-> get_entry_type(f, file)])

\* Lines 66-90: the directory is read and every entry described.
list_dir(r) ==
    /\ pc[r] = "list_dir"
    /\ LET d == disk[metadata[r]]
       IN  /\ Call(r, <<[op |-> "read_dir", path |-> full_path[r]]>>
                       \o (IF d.readable
                           THEN list_calls(disk, full_path[r], d.children, 1)
                           ELSE <<>>))
           /\ \E now \in Times :
                  Finish(r, list_dir_response(disk, full_path[r], d, now))
    /\ UNCHANGED <<fs, handler, path, params, full_path, metadata, modified_time,
                   format, img>>

\* Lines 91-113: one file is described.
list_detail(r) ==
    /\ pc[r] = "list_detail"
    /\ LET n == disk[metadata[r]]
       IN  \E now \in Times :
           /\ modified_time' = local(modified_time, r, modified_or(n, now))
           /\ Call(r, <<[op |-> "image_dimensions", path |-> full_path[r]],
                        [op |-> "is_dir", path |-> full_path[r]]>>)
           /\ Finish(r, list_detail_response(disk, path[r], full_path[r], n, now))
    /\ UNCHANGED <<fs, handler, path, params, full_path, metadata, format, img>>

\* list_handler as a function of the request, the filesystem and the clock
list_handler(f, p, now) ==
    IF list_forbidden(p) THEN Status(403)
    ELSE LET m == Resolve(f, list_full_path(p))
         IN  IF m = "none" THEN Status(404)
             ELSE IF f[m].kind = "dir"
             THEN list_dir_response(f, list_full_path(p), f[m], now)
             ELSE list_detail_response(f, p, list_full_path(p), f[m], now)

(***************************************************************************)
(* download_handler                                                        *)
(***************************************************************************)
\* A variant of the check below that looks at the first character of the
\* whole path only, as list_handler does.
leading_dot_only(p) == starts_with_dot(p)

\* path.split('/').any(|segment| segment.starts_with("."))
any_segment_hidden(p) ==
    \E i \in 1..Len(split(p)) : starts_with_dot(split(p)[i])

\* let full_path = FilePath::new(&base_dir).join(&path)
download_full_path(p) == join(base_dir, p)

\* The two checks of lines 117 and 126.
download_forbidden(p) ==
    any_segment_hidden(p) \/ ~path_starts_with(download_full_path(p), base_dir)

\* A variant of the choice below that encodes every image as PNG.
always_png(fmt) == "png"

\* reader.format().unwrap_or(image::ImageFormat::Png)
format_or_png(fmt) == IF fmt = "none" THEN "png" ELSE fmt

\* A variant of the test below that resizes when either parameter is given.
resize_if_either(q) == q.width >= 0 \/ q.height >= 0

\* if let (Some(width), Some(height)) = (params.width, params.height)
resize_requested(q) == q.width >= 0 /\ q.height >= 0

\* params.preserve_aspect_ratio.unwrap_or(false)
preserve(q) == q.preserve_aspect_ratio = "true"

\* Lines 182-190: the dimensions of processed_img
processed_img(i, q) ==
    IF resize_requested(q)
    THEN IF preserve(q)
         THEN resize_dimensions(i.w, i.h, q.width, q.height)
         ELSE [w |-> q.width, h |-> q.height]
    ELSE i

\* Lines 200-208: the match on format
content_type_of(fmt) ==
    CASE fmt = "png"  -> "image/png"
      [] fmt = "jpeg" -> "image/jpeg"
      [] fmt = "gif"  -> "image/gif"
      [] fmt = "webp" -> "image/webp"
      [] fmt = "avif" -> "image/avif"
      [] fmt = "tiff" -> "image/tiff"
      [] OTHER        -> "application/octet-stream"

\* Lines 210-229: the headers and the encoded image
download_ok(fmt, modified, out) ==
    [status |-> 200,
     content_type |-> content_type_of(fmt),
     last_modified |-> modified,
     cache_control |-> "public, max-age=31536000",
     body |-> [kind |-> "image", format |-> fmt, width |-> out.w, height |-> out.h]]

\* Lines 117-129: the hidden-segment check, the join, the containment check.
download_check(r) ==
    /\ pc[r] = "download_check"
    /\ IF any_segment_hidden(path[r])
       THEN Finish(r, Status(403)) /\ UNCHANGED full_path
       ELSE /\ full_path' = local(full_path, r, download_full_path(path[r]))
            /\ IF download_forbidden(path[r])
               THEN Finish(r, Status(403))
               ELSE pc' = [pc EXCEPT ![r] = "download_metadata"] /\ UNCHANGED response
    /\ UNCHANGED <<fs, handler, path, params, metadata, modified_time, format,
                   img, fs_calls>>

\* Lines 131-139: fs::metadata(&full_path) and modified_time.
download_metadata(r) ==
    /\ pc[r] = "download_metadata"
    /\ Call(r, <<[op |-> "metadata", path |-> full_path[r]]>>)
    /\ LET m == Resolve(disk, full_path[r])
       IN  /\ metadata' = local(metadata, r, m)
           /\ IF m = "none"
              THEN Finish(r, Status(404)) /\ UNCHANGED modified_time
              ELSE \E now \in Times :
                   /\ modified_time' =
                          local(modified_time, r, modified_or(disk[m], now))
                   /\ pc' = [pc EXCEPT ![r] = "download_open"]
                   /\ UNCHANGED response
    /\ UNCHANGED <<fs, handler, path, params, full_path, format, img>>

\* Lines 141-157: ImageReader::open, with_guessed_format, format.  Opening
\* fails on a file the process may not read; guessing the format reads the
\* first bytes, which fails on a directory.
download_open(r) ==
    /\ pc[r] = "download_open"
    /\ Call(r, <<[op |-> "open", path |-> full_path[r]]>>)
    /\ LET n == disk[metadata[r]]
       IN  IF ~n.readable
           THEN Finish(r, Status(404)) /\ UNCHANGED format
           ELSE IF n.kind = "dir"
           THEN Finish(r, Status(500)) /\ UNCHANGED format
           ELSE /\ format' = local(format, r, format_or_png(n.img.fmt))
                /\ pc' = [pc EXCEPT ![r] = "download_decode"]
                /\ UNCHANGED response
    /\ UNCHANGED <<fs, handler, path, params, full_path, metadata, modified_time,
                   img>>

\* Lines 159-180: into_decoder (which needs a format and a readable
\* header), orientation, from_decoder, apply_orientation.
download_decode(r) ==
    /\ pc[r] = "download_decode"
    /\ LET i == disk[metadata[r]].img
       IN  IF i.fmt = "none" \/ ~i.header \/ i.orient = 0 \/ ~i.pixels
           THEN Finish(r, Status(500)) /\ UNCHANGED img
           ELSE /\ img' = local(img, r, apply_orientation(i))
                /\ pc' = [pc EXCEPT ![r] = "download_process"]
                /\ UNCHANGED response
    /\ UNCHANGED <<fs, handler, path, params, full_path, metadata, modified_time,
                   format, fs_calls>>

\* Lines 192-230: write_to and the response
download_response(fmt, modified, out, encoded) ==
    IF encoded THEN download_ok(fmt, modified, out) ELSE Status(500)

\* Whether write_to succeeds.  Whether an image with no pixels (a width or
\* height of 0) can be encoded depends on the encoder.
write_to_results(i, out) == IF out.w = 0 \/ out.h = 0 THEN BOOLEAN ELSE {i.enc}

\* Lines 182-230: resize, write_to, the headers.  The handler reads the
\* query parameters here for the first time: they are drawn here.
download_process(r, q) ==
    /\ pc[r] = "download_process"
    /\ params' = local(params, r, q)
    /\ LET out == processed_img(img[r], q)
       IN  \E encoded \in write_to_results(disk[metadata[r]].img, out) :
              Finish(r, download_response(format[r], modified_time[r], out, encoded))
    /\ UNCHANGED <<fs, handler, path, full_path, metadata, modified_time, format,
                   img, fs_calls>>

\* download_handler as a function of the request, the filesystem and the
\* clock: the responses it may give (one, unless the encoder decides)
download_handler(f, p, q, now) ==
    IF download_forbidden(p) THEN {Status(403)}
    ELSE LET m == Resolve(f, download_full_path(p))
         IN  IF m = "none" THEN {Status(404)}
             ELSE IF ~f[m].readable THEN {Status(404)}
             ELSE IF f[m].kind = "dir" THEN {Status(500)}
             ELSE IF f[m].img.fmt = "none" \/ ~f[m].img.header
                     \/ f[m].img.orient = 0 \/ ~f[m].img.pixels
             THEN {Status(500)}
             ELSE LET out == processed_img(apply_orientation(f[m].img), q)
                  IN  {download_response(format_or_png(f[m].img.fmt),
                                         modified_or(f[m], now), out, encoded) :
                          encoded \in write_to_results(f[m].img, out)}

\* The response is sent and the request's task ends.
Complete(r) ==
    /\ pc[r] = "done"
    /\ pc' = [pc EXCEPT ![r] = "idle"]
    /\ handler' = local(handler, r, "none")
    /\ path' = local(path, r, <<>>)
    /\ params' = local(params, r, NoParams)
    /\ full_path' = local(full_path, r, <<>>)
    /\ metadata' = local(metadata, r, "none")
    /\ modified_time' = local(modified_time, r, -1)
    /\ format' = local(format, r, "none")
    /\ img' = local(img, r, [w |-> 0, h |-> 0])
    /\ fs_calls' = [fs_calls EXCEPT ![r] = <<>>]
    /\ response' = [response EXCEPT ![r] = NoResponse]
    /\ UNCHANGED fs

\* One step of the handler of request r; Q is what the query may hold.
Handle(r, Q) ==
    \/ list_check(r)
    \/ list_metadata(r)
    \/ list_dir(r)
    \/ list_detail(r)
    \/ download_check(r)
    \/ download_metadata(r)
    \/ download_open(r)
    \/ download_decode(r)
    \/ \E q \in Q : download_process(r, q)
    \/ Complete(r)

\* Requests served one after the other, over every path and query.
Next == \E r \in Slots : Receive(r) \/ Handle(r, ResizeParams)

Spec == Init /\ [][Next]_vars

(***************************************************************************)
(* Concurrent requests: every request is a task of its own on the worker   *)
(* pool, and the tasks interleave at each of their steps.  The requests    *)
(* are for a file and a directory, with and without a resize.              *)
(***************************************************************************)
ConcVariants ==
    {Plain(Image("png", 4, 2, 1)),
     [Plain(Image("jpeg", 4, 2, 6)) EXCEPT !.mtime = -1]}

ConcPaths == {<<"pic", DOT, "png">>, <<"sub">>}

ConcParams ==
    {NoParams, [width |-> 2, height |-> 2, preserve_aspect_ratio |-> "true"]}

ConcInit ==
    /\ fs \in ConcVariants
    /\ pc = [r \in Slots |-> "idle"]
    /\ handler = [r \in Slots |-> "none"]
    /\ path = [r \in Slots |-> <<>>]
    /\ params = [r \in Slots |-> NoParams]
    /\ full_path = [r \in Slots |-> <<>>]
    /\ metadata = [r \in Slots |-> "none"]
    /\ modified_time = [r \in Slots |-> -1]
    /\ format = [r \in Slots |-> "none"]
    /\ img = [r \in Slots |-> [w |-> 0, h |-> 0]]
    /\ fs_calls = [r \in Slots |-> <<>>]
    /\ response = [r \in Slots |-> NoResponse]

\* A request arrives, whatever the others are doing.
ConcReceive(r) ==
    \E h \in {"list", "download"} : \E p \in ConcPaths : Route(r, h, p)

ConcNext == \E r \in Slots : ConcReceive(r) \/ Handle(r, ConcParams)

ConcSpec == ConcInit /\ [][ConcNext]_vars

(***************************************************************************)
(* Properties.                                                             *)
(***************************************************************************)
Done(r) == pc[r] = "done"

\* The '/'-separated segments of a path
SegmentsOf(p) == {split(p)[i] : i \in 1..Len(split(p))}

\* A segment that begins with a dot
Hidden(seg) == seg # <<>> /\ seg[1] = DOT

\* The path has a ".." segment
HasParentSegment(p) == <<DOT, DOT>> \in SegmentsOf(p)

\* The path a handler resolves: list_handler percent-decodes what the
\* router extracted, download_handler takes it as it is
Resolved(h, p) == IF h = "list" THEN decoded_path(p) ELSE p

\* The client path has a ".." segment, as written or in the form the handler
\* resolves, or is absolute and so resolves outside the base directory
Escaping(h, p) ==
    \/ HasParentSegment(p)
    \/ HasParentSegment(Resolved(h, p))
    \/ has_root(Resolved(h, p))

\* C1: a request whose path has a ".." segment anywhere, or is absolute, is
\* answered 403 Forbidden by list_handler and by download_handler, never 200
\* or 404.
C1_TraversalForbidden ==
    \A r \in Slots :
        (Done(r) /\ Escaping(handler[r], path[r])) => response[r].status = 403

\* C2: list_handler answers Forbidden to every path whose first character is
\* a dot, download_handler to every path with a segment that begins with a
\* dot; neither looks at the filesystem first, so the answer is the same
\* whether or not the path exists.
C2_HiddenForbidden ==
    \A r \in Slots :
        /\ (Done(r) /\ handler[r] = "list" /\ path[r] # <<>> /\ path[r][1] = DOT)
               => (response[r].status = 403 /\ fs_calls[r] = <<>>)
        /\ (Done(r) /\ handler[r] = "download"
                /\ \E seg \in SegmentsOf(path[r]) : Hidden(seg))
               => (response[r].status = 403 /\ fs_calls[r] = <<>>)

\* A download of a path that exists, under the base directory, whose first
\* segment is not hidden and whose later segment is, was refused.
C2_Witness ==
    \E r \in Slots :
        /\ Done(r) /\ handler[r] = "download"
        /\ ~has_root(path[r]) /\ ~Hidden(split(path[r])[1])
        /\ \E seg \in SegmentsOf(path[r]) : Hidden(seg)
        /\ Resolve(disk, join(base_dir, path[r])) # "none"
        /\ response[r].status = 403

\* C3: every path a handler hands to the filesystem or to the decoder lies
\* under the base directory and has no segment that begins with a dot, and
\* the first such operation comes after the path checks have passed.
C3_TrustedPaths ==
    \A r \in Slots : \A i \in 1..Len(fs_calls[r]) :
        /\ path_starts_with(fs_calls[r][i].path, base_dir)
        /\ \A seg \in SegmentsOf(fs_calls[r][i].path) : ~Hidden(seg)
        /\ IF handler[r] = "list" THEN ~list_forbidden(path[r])
           ELSE ~download_forbidden(path[r])

\* A finished download that was answered 200
Served(r) == Done(r) /\ handler[r] = "download" /\ response[r].status = 200

\* The file a request was about
Source(r) == disk[metadata[r]]

\* The dimensions of the source image once its orientation is applied
Upright(i) ==
    IF i.orient \in {5, 6, 7, 8} THEN [w |-> i.h, h |-> i.w]
    ELSE [w |-> i.w, h |-> i.h]

\* C4, as claimed: with width or height absent the output has the format
\* and the pixel dimensions of the source image.
C4_Original ==
    \A r \in Slots :
        (Served(r) /\ (params[r].width < 0 \/ params[r].height < 0))
            => /\ response[r].body.format = Source(r).img.fmt
               /\ response[r].body.width = Source(r).img.w
               /\ response[r].body.height = Source(r).img.h

\* C4, amended: with width or height absent (whatever preserve_aspect_ratio
\* is) nothing is resized: the output has the format of the source image and
\* the pixel dimensions of the source image after its orientation was
\* applied, that is width and height exchanged for the orientations 5 to 8.
C4_NoResize ==
    \A r \in Slots :
        (Served(r) /\ (params[r].width < 0 \/ params[r].height < 0))
            => /\ response[r].body.format = Source(r).img.fmt
               /\ response[r].body.width = Upright(Source(r).img).w
               /\ response[r].body.height = Upright(Source(r).img).h

\* A download with a width and no height of an image stored on its side was
\* served with the stored width as its height.
C4_Witness ==
    \E r \in Slots :
        /\ Served(r) /\ params[r].width >= 0 /\ params[r].height < 0
        /\ params[r].preserve_aspect_ratio = "true"
        /\ Source(r).img.orient = 6 /\ Source(r).img.w # Source(r).img.h
        /\ response[r].body.height = Source(r).img.w

Abs(x) == IF x < 0 THEN -x ELSE x

\* out is the image of dimensions src scaled to fit the box W x H, each side
\* less than one pixel from the exact value: one side fills the box, the
\* other keeps the ratio
ScaledToFit(out, src, W, H) ==
    \/ out.width = W /\ Abs(out.height * src.w - src.h * W) < src.w
    \/ out.height = H /\ Abs(out.width * src.h - src.w * H) < src.h

\* C5, as claimed: with width W and height H, the output is W x H unless
\* preserve_aspect_ratio is true, and then it fits in W x H and has the aspect
\* ratio of the source image within rounding.
C5_Original ==
    \A r \in Slots :
        (Served(r) /\ params[r].width >= 0 /\ params[r].height >= 0)
            => IF params[r].preserve_aspect_ratio = "true"
               THEN /\ response[r].body.width <= params[r].width
                    /\ response[r].body.height <= params[r].height
                    /\ ScaledToFit(response[r].body, Source(r).img,
                                   params[r].width, params[r].height)
               ELSE /\ response[r].body.width = params[r].width
                    /\ response[r].body.height = params[r].height

\* C5, amended: with width W and height H, the output is W x H unless
\* preserve_aspect_ratio is true; and then, for W >= 1 and H >= 1, it fits in
\* W x H and has, within rounding, the aspect ratio of the source image after
\* its orientation was applied; for W = 0 or H = 0 it is 1 x 1, since no side
\* is scaled below one pixel.
C5_Resize ==
    \A r \in Slots :
        (Served(r) /\ params[r].width >= 0 /\ params[r].height >= 0)
            => IF params[r].preserve_aspect_ratio = "true"
               THEN IF params[r].width >= 1 /\ params[r].height >= 1
                    THEN /\ response[r].body.width <= params[r].width
                         /\ response[r].body.height <= params[r].height
                         /\ ScaledToFit(response[r].body, Upright(Source(r).img),
                                        params[r].width, params[r].height)
                    ELSE response[r].body.width = 1 /\ response[r].body.height = 1
               ELSE /\ response[r].body.width = params[r].width
                    /\ response[r].body.height = params[r].height

\* An image stored on its side was scaled into a box of another shape: the
\* height fills the box, the width is smaller.
C5_Witness ==
    \E r \in Slots :
        /\ Served(r) /\ params[r].preserve_aspect_ratio = "true"
        /\ params[r].width >= 1 /\ params[r].height >= 1
        /\ response[r].body.width < params[r].width
        /\ response[r].body.height = params[r].height
        /\ Source(r).img.orient = 6

\* C6: a served image is encoded in the format found in the file, whatever
\* width, height and preserve_aspect_ratio are, and its Content-Type is the
\* MIME type of that format: image/png, image/jpeg, image/gif, image/webp,
\* image/avif, image/tiff, and application/octet-stream for any other.
C6_FormatKept ==
    \A r \in Slots :
        Served(r) =>
            LET fmt == Source(r).img.fmt
                ct == response[r].content_type
            IN  /\ response[r].body.format = fmt
                /\ fmt = "png" => ct = "image/png"
                /\ fmt = "jpeg" => ct = "image/jpeg"
                /\ fmt = "gif" => ct = "image/gif"
                /\ fmt = "webp" => ct = "image/webp"
                /\ fmt = "avif" => ct = "image/avif"
                /\ fmt = "tiff" => ct = "image/tiff"
                /\ fmt \notin {"png", "jpeg", "gif", "webp", "avif", "tiff"}
                       => ct = "application/octet-stream"

\* A resized image of a format outside the table was served.
C6_Witness ==
    \E r \in Slots :
        /\ Served(r) /\ params[r].width >= 1 /\ params[r].height >= 1
        /\ params[r].preserve_aspect_ratio = "true"
        /\ Source(r).img.fmt = "bmp"
        /\ response[r].content_type = "application/octet-stream"

\* The path of a finished request passed the path checks
Passed(r) == Done(r) /\ response[r].status # 403

\* The path a handler looks up on the filesystem
Target(h, p) == IF h = "list" THEN list_full_path(p) ELSE download_full_path(p)

\* A file the process can open whose content is no image the library can
\* decode: no format, an unreadable header or orientation, corrupt pixels
Undecodable(n) ==
    /\ n.kind = "file" /\ n.readable
    /\ n.img.fmt = "none" \/ ~n.img.header \/ n.img.orient = 0 \/ ~n.img.pixels

\* The dimension probe of list_handler fails on the file
Unprobable(n) == n.img.fmt = "none" \/ ~n.img.header

C8_Original ==
    \A r \in Slots :
        Served(r) =>
            /\ response[r].cache_control = "public, max-age=31536000"
            /\ response[r].last_modified = Source(r).mtime

\* C8, amended: every 200 of download_handler has Cache-Control: public,
\* max-age=31536000 and a Last-Modified, which is the modification time of
\* the source file when the filesystem reports one and a reading of the
\* clock during the request when it does not.
C8_CacheHeaders ==
    \A r \in Slots :
        Served(r) =>
            /\ response[r].cache_control = "public, max-age=31536000"
            /\ Source(r).mtime >= 0 => response[r].last_modified = Source(r).mtime
            /\ Source(r).mtime < 0 => response[r].last_modified \in Times

\* A file was served resized with its modification time as Last-Modified.
C8_Witness ==
    \E r \in Slots :
        /\ Served(r) /\ Source(r).mtime >= 0
        /\ params[r].width >= 1 /\ params[r].height >= 1
        /\ response[r].last_modified = Source(r).mtime
        /\ response[r].cache_control = "public, max-age=31536000"

\* The children of directory d that a listing shows: the name does not
\* begin with a dot and the metadata can be read
Listed(d) ==
    {c \in {d.children[i] : i \in 1..Len(d.children)} :
        ~Hidden(disk[c].name) /\ disk[c].kind # "dangling"}

\* The type of child c in a listing
TypeOf(c) ==
    IF disk[c].kind = "dir" THEN "directory"
    ELSE IF to_lowercase(extension(disk[c].name)) \in
              {<<"jpg">>, <<"jpeg">>, <<"png">>, <<"gif">>, <<"bmp">>, <<"ico">>,
               <<"tiff">>, <<"webp">>, <<"avif">>}
    THEN "image" ELSE "file"

C10_Original ==
    [][/\ fs' = fs
       /\ \A a, b \in Slots :
              (/\ pc'[a] = "done" /\ pc'[b] = "done"
               /\ handler'[a] = handler'[b]
               /\ path'[a] = path'[b]
               /\ params'[a] = params'[b]) => response'[a] = response'[b]]_vars

\* The responses handler h gives to path p and query q when it runs alone on
\* the directory tree f, over the readings of the clock
Alone(h, p, q, f) ==
    UNION {IF h = "list" THEN {list_handler(f, p, now)}
           ELSE download_handler(f, p, q, now) : now \in Times}

\* C10, amended: under any interleaving the response to a request is one
\* that its handler gives when it runs alone on the same filesystem, which is
\* determined by the path, the query parameters, the files and, for a file
\* whose modification time cannot be read, the clock; and no request writes
\* to the filesystem.
C10_Isolated ==
    [][/\ fs' = fs
       /\ \A r \in Slots :
              pc'[r] = "done" =>
                  response'[r] \in Alone(handler'[r], path'[r], params'[r], MkFS(fs'))]_vars

\* A listing and a resized download were in flight together and both were
\* answered 200.
C10_Witness ==
    \E a, b \in Slots :
        /\ Done(a) /\ handler[a] = "list" /\ response[a].status = 200
        /\ Served(b) /\ params[b].width >= 1
        /\ fs_calls[a] # <<>> /\ fs_calls[b] # <<>>

====
